---- MODULE Spec2Model ----
(***************************************************************************)
(* A model of sysstat_report.py: one run of the script, from the           *)
(* acquisition of the temporary directory to its removal.  The segment     *)
(* files on disk, the login-accounting logs, the output of sadf, the       *)
(* clock, the timezone and the one external failure (or interrupt) a run   *)
(* may meet are the environment, fixed when the run starts; the run itself *)
(* is sequential.                                                          *)
(***************************************************************************)
EXTENDS Integers, Sequences, FiniteSets, TLC

VARIABLES
    today,           \* environment: datetime.date.today() / datetime.now()
    gmtoff,          \* environment: time.localtime().tm_gmtoff, in seconds
    report_type,     \* args.report_type: "DAILY", "WEEKLY" or "MONTHLY"
    HAS_OPTIPNG,     \* shutil.which("optipng") is not None
    fs,              \* the set of paths of the files that exist
    wtmp,            \* environment: <<wtmp.1, wtmp>>, each [isfile, boots]
    sadf_net,        \* environment: field 3 of each line "sadf -n DEV" prints for a segment
    fault,           \* environment: the step and tool that fails in this run, if any
    pc,              \* position of the run in __main__
    fam,             \* index of data_type in SysstatDataType (0 outside the loop)
    temp_dirs,       \* how many temporary directories the run has acquired
    sa_filepaths,    \* SysstatData.sa_filepaths
    decompressed,    \* the bz_decompress calls made, as <<bz2_filepath, new_filepath>>
    created,         \* every path the run has written to
    reboot_times,    \* the result of get_reboot_times()
    indexes,         \* generateData's column indexes for the current family
    data_filepaths,  \* the current family's tables, as a sequence of [nick, path]
    tables,          \* the NET sub-tables written: [path, lines], lines as line numbers
    charts,          \* the scripts handed to gnuplot, in order
    trace,           \* the steps completed so far
    mail_count,      \* how many times sendmail has been invoked
    outcome          \* "running", "ok", "error" or "interrupt"

env_vars == <<today, gmtoff, report_type, HAS_OPTIPNG, wtmp, sadf_net, fault>>

run_vars == <<pc, fam, temp_dirs, sa_filepaths, decompressed, created, reboot_times,
              indexes, data_filepaths, tables, charts, trace, mail_count, outcome>>

vars == <<env_vars, fs, run_vars>>

(***************************************************************************)
(* Bounds of the model.                                                    *)
(***************************************************************************)
FirstYear == 2023

LastYear == 2025

Lookback == 62

MaxRows == 4

MaxReboots == 2

(***************************************************************************)
(* Enumerations (lines 27-28), in declaration order.                       *)
(***************************************************************************)
ReportType == <<"DAILY", "WEEKLY", "MONTHLY">>

SysstatDataType == <<"CPU", "MEM", "SWAP", "NET", "IO">>

Range(s) == {s[i] : i \in DOMAIN s}

(***************************************************************************)
(* Calendar arithmetic of the datetime and calendar modules, as the        *)
(* script uses them.                                                       *)
(***************************************************************************)
Date(y, m, d) == [year |-> y, month |-> m, day |-> d]

isleap(year) == year % 4 = 0 /\ (year % 100 # 0 \/ year % 400 = 0)

mdays == <<31, 28, 31, 30, 31, 30, 31, 31, 30, 31, 30, 31>>

\* calendar.monthrange(year, month)[1]
monthrange(year, month) == mdays[month] + (IF month = 2 /\ isleap(year) THEN 1 ELSE 0)

days_before_year(year) ==
    LET y == year - 1 IN y * 365 + (y \div 4) - (y \div 100) + (y \div 400)

RECURSIVE days_before_month(_, _)
days_before_month(year, month) ==
    IF month = 1 THEN 0
    ELSE days_before_month(year, month - 1) + monthrange(year, month - 1)

\* date.toordinal()
toordinal(d) == days_before_year(d.year) + days_before_month(d.year, d.month) + d.day

\* date.fromordinal(n): the proleptic Gregorian date of ordinal n
fromordinal(ord) ==
    LET n0   == ord - 1
        n400 == n0 \div 146097
        r400 == n0 % 146097
        n100 == r400 \div 36524
        r100 == r400 % 36524
        n4   == r100 \div 1461
        r4   == r100 % 1461
        n1   == r4 \div 365
        n    == r4 % 365
        year == n400 * 400 + 1 + n100 * 100 + n4 * 4 + n1
    IN  IF n1 = 4 \/ n100 = 4 THEN Date(year - 1, 12, 31)
        ELSE LET m0    == (n + 50) \div 32
                 prec0 == days_before_month(year, m0)
                 month == IF prec0 > n THEN m0 - 1 ELSE m0
                 prec  == days_before_month(year, month)
             IN  Date(year, month, n - prec + 1)

\* date - datetime.timedelta(days=n)
date_minus_days(d, n) == fromordinal(toordinal(d) - n)

(***************************************************************************)
(* Paths.  dir is SysstatRoot for /var/log/sysstat, year*100+month for     *)
(* /var/log/sysstat/YYYYMM and TempDir for the temporary directory; the    *)
(* file name is stem, then the two-digit day (segments), then "_itf"       *)
(* (network sub-tables), then the extension.                               *)
(***************************************************************************)
SysstatRoot == 0

TempDir == -1

Path(dir, stem, day, itf, ext) ==
    [dir |-> dir, stem |-> stem, day |-> day, itf |-> itf, ext |-> ext]

\* "/var/log/sysstat/sa%02u" % (date.day)
DailySegment(date) == Path(SysstatRoot, "sa", date.day, "", "")

\* date.strftime("/var/log/sysstat/%Y%m/sa%d") and "/var/log/sysstat/%04u%02u/sa%02u"
MonthSegment(year, month, day) == Path(year * 100 + month, "sa", day, "", "")

\* "%s.bz2" % (filepath)
Bz2Of(filepath) == [filepath EXCEPT !.ext = "bz2"]

\* the file is decompressed beside its archive
InTempDir_InPlace(filepath) == filepath

\* os.path.join(temp_dir, os.path.basename(filepath))
InTempDir(filepath) == [filepath EXCEPT !.dir = TempDir]

\* os.path.join(temp_dir, "%s.<ext>" % (data_type.name.lower()))
TempFile(data_type, ext) == Path(TempDir, data_type, 0, "", ext)

isfile(p) == p \in fs

(***************************************************************************)
(* The one failure of the run.  fault names the step (pc, fam) and the     *)
(* tool that fails there; tool "SIGINT" is an interrupt arriving in that   *)
(* step.                                                                   *)
(***************************************************************************)
NoFault == [pc |-> "none", fam |-> 0, tool |-> "none"]

FaultHere(tool) == fault.pc = pc /\ fault.fam = fam /\ fault.tool = tool

Interrupted == FaultHere("SIGINT")

\* subprocess.call: the exit status is returned and ignored
check_call_Ignored(tool) == FALSE

\* subprocess.check_call / check_output: raise when the tool exits non-zero
check_call(tool) == FaultHere(tool)

(***************************************************************************)
(* bz_decompress (lines 118-122).  The archive is opened first: when it    *)
(* does not exist nothing is written; when it is corrupt the new file has  *)
(* been opened for writing before the copy fails.                          *)
(***************************************************************************)
bz_decompress(bz2_filepath, new_filepath) ==
    IF ~isfile(bz2_filepath) THEN [raised |-> TRUE, written |-> {}]
    ELSE [raised |-> FaultHere("bz2"), written |-> {new_filepath}]

(***************************************************************************)
(* The loop body of lines 139-146 and 155-161, over the live paths of the  *)
(* window in order.  acc is [paths, written, calls, raised].               *)
(***************************************************************************)
RECURSIVE LocateFrom(_, _, _)
LocateFrom(live, i, acc) ==
    IF i > Len(live) \/ acc.raised THEN acc
    ELSE IF isfile(live[i])
         THEN LocateFrom(live, i + 1, [acc EXCEPT !.paths = Append(@, live[i])])
         ELSE LET new == InTempDir(live[i])
                  res == bz_decompress(Bz2Of(live[i]), new)
              IN  LocateFrom(live, i + 1,
                     [paths   |-> IF res.raised THEN acc.paths ELSE Append(acc.paths, new),
                      written |-> acc.written \cup res.written,
                      calls   |-> Append(acc.calls, <<Bz2Of(live[i]), new>>),
                      raised  |-> res.raised])

NothingLocated == [paths |-> <<>>, written |-> {}, calls |-> <<>>, raised |-> FALSE]

\* range(6, -1, -1) in place of range(7, 0, -1)
WeeklyLive_OffByOne(t) ==
    [k \in 1..7 |-> LET date == date_minus_days(t, 7 - k)
                    IN  MonthSegment(date.year, date.month, date.day)]

\* lines 139-141: the live paths of the 7 days before today, oldest first
WeeklyLive(t) ==
    [k \in 1..7 |-> LET date == date_minus_days(t, 8 - k)
                    IN  MonthSegment(date.year, date.month, date.day)]

\* the year is not decremented in January
MonthlyLive_SameYear(t) ==
    LET month == IF t.month = 1 THEN 12 ELSE t.month - 1
    IN  [day \in 1..monthrange(t.year, month) |-> MonthSegment(t.year, month, day)]

\* lines 149-156: the live paths of the days of the month before today's
MonthlyLive(t) ==
    LET year  == IF t.month = 1 THEN t.year - 1 ELSE t.year
        month == IF t.month = 1 THEN 12 ELSE t.month - 1
    IN  [day \in 1..monthrange(year, month) |-> MonthSegment(year, month, day)]

\* SysstatData.__init__ (lines 129-161)
SysstatData(rtype, t) ==
    IF rtype = "DAILY"
    THEN [NothingLocated EXCEPT !.paths = <<DailySegment(date_minus_days(t, 1))>>]
    ELSE IF rtype = "WEEKLY"
         THEN LocateFrom(WeeklyLive(t), 1, NothingLocated)
         ELSE LocateFrom(MonthlyLive(t), 1, NothingLocated)

(***************************************************************************)
(* Steps of __main__.                                                      *)
(***************************************************************************)
Step(name, family) == [step |-> name, fam |-> family]

\* An exception leaves the with block: nothing else of the run is executed.
Raise(kind) ==
    /\ pc' = "exit"
    /\ outcome' = kind

\* line 391: with tempfile.TemporaryDirectory(...) as temp_dir
AcquireTempDir ==
    /\ pc = "start"
    /\ pc' = "locate"
    /\ temp_dirs' = temp_dirs + 1
    /\ UNCHANGED <<env_vars, fs, fam, sa_filepaths, decompressed, created, reboot_times,
                   indexes, data_filepaths, tables, charts, trace, mail_count, outcome>>

\* line 392: sysstat_data = SysstatData(report_type, temp_dir)
SysstatDataInit ==
    /\ pc = "locate"
    /\ IF Interrupted
       THEN /\ Raise("interrupt")
            /\ UNCHANGED <<fs, sa_filepaths, decompressed, created, trace>>
       ELSE LET res == SysstatData(report_type, today)
            IN  /\ fs' = fs \cup res.written
                /\ created' = created \cup res.written
                /\ decompressed' = res.calls
                /\ sa_filepaths' = res.paths
                /\ IF res.raised
                   THEN /\ Raise("error")
                        /\ UNCHANGED trace
                   ELSE /\ pc' = "free"
                        /\ trace' = Append(trace, Step("locate", ""))
                        /\ UNCHANGED outcome
    /\ UNCHANGED <<env_vars, fam, temp_dirs, reboot_times, indexes, data_filepaths,
                   tables, charts, mail_count>>

(***************************************************************************)
(* get_reboot_times (lines 60-75): wtmp.1 first, then wtmp; a log that     *)
(* does not exist is skipped and "last" is run on each log that exists.    *)
(* A boot time is a naive local datetime, in seconds since 1970-01-01      *)
(* 00:00 read as if it were UTC.                                           *)
(***************************************************************************)
RECURSIVE get_reboot_times(_, _)
get_reboot_times(logs, i) ==
    IF i > Len(logs) THEN <<>>
    ELSE (IF logs[i].isfile THEN logs[i].boots ELSE <<>>) \o get_reboot_times(logs, i + 1)

runs_last(logs) == \E i \in DOMAIN logs : logs[i].isfile

(***************************************************************************)
(* generateData (lines 163-227).  A table is the sequence of the 4th       *)
(* field (split(";", 5)[3]) of its lines; line 1 is the header line, whose *)
(* 4th field is "IFACE".                                                   *)
(***************************************************************************)
\* lines 173-187: sadf's output for each segment, appended in window order
Concatenated(lines, segments) ==
    [k \in 1..(Len(lines) * segments) |-> lines[((k - 1) % Len(lines)) + 1]]

\* a name already met is skipped ("continue") and the scan goes on
RECURSIVE Discover_NoBreak(_, _, _)
Discover_NoBreak(table, i, seen) ==
    IF i > Len(table) THEN seen
    ELSE IF table[i] \in Range(seen) THEN Discover_NoBreak(table, i + 1, seen)
         ELSE Discover_NoBreak(table, i + 1, Append(seen, table[i]))

\* lines 191-199: the interfaces met from line 2 on, up to the first repeat
RECURSIVE Discover(_, _, _)
Discover(table, i, seen) ==
    IF i > Len(table) THEN seen
    ELSE IF table[i] \in Range(seen) THEN seen
         ELSE Discover(table, i + 1, Append(seen, table[i]))

\* lines 205-209: the lines of the whole table routed to the file of itf
Routed(table, itf, i) ==
    SelectSeq([k \in 1..(Len(table) - i + 1) |-> k + i - 1], LAMBDA n : table[n] = itf)

\* "%s_%s%s" % (base_filename, itf, ext)
SubTable(output_filepath, itf) == [output_filepath EXCEPT !.itf = itf]

\* lines 211-225
ColumnIndexes(dtype) ==
    CASE dtype = "CPU"  -> <<3, 5, 6, 7, 8, 9, 10>>
      [] dtype = "MEM"  -> <<3, 5, 7, 8, 9, 11, 13>>
      [] dtype = "SWAP" -> <<3, 6>>
      [] dtype = "NET"  -> <<3, 7, 8>>
      [] dtype = "IO"   -> <<3, 7, 8>>

generateData(dtype, output_filepath, table) ==
    LET itfs == IF dtype = "NET" THEN Discover(table, 2, <<>>) ELSE <<>>
    IN  [indexes |-> ColumnIndexes(dtype),
         net_output_filepaths |->
             [k \in DOMAIN itfs |->
                 [nick |-> itfs[k], path |-> SubTable(output_filepath, itfs[k])]],
         written |->
             [k \in DOMAIN itfs |->
                 [path |-> SubTable(output_filepath, itfs[k]),
                  lines |-> Routed(table, itfs[k], 1)]]]

\* lines 437-438: a family that was not split is plotted from its one table
TablesToPlot(net_output_filepaths, data_filepath) ==
    IF net_output_filepaths = <<>>
    THEN <<[nick |-> "", path |-> data_filepath]>>
    ELSE net_output_filepaths

\* sadf exits non-zero on a segment it cannot read
sadf_fails(paths) == check_call("sadf") \/ \E i \in DOMAIN paths : ~isfile(paths[i])

(***************************************************************************)
(* Plotter.__plot (lines 248-343).                                         *)
(***************************************************************************)
\* datetime.datetime(year, month, day), in seconds
datetime(d) == (toordinal(d) - toordinal(Date(1970, 1, 1))) * 86400

\* datetime.strftime("%s"): mktime of the naive datetime read as local time
strftime_s(dt, off) == dt - off

\* lines 275-294: date_from and date_to before the offset is added
date_range(rtype, now) ==
    IF rtype = "DAILY"
    THEN [from |-> datetime(now) - 86400, to |-> datetime(now)]
    ELSE IF rtype = "WEEKLY"
         THEN [from |-> datetime(now) - 7 * 86400, to |-> datetime(now)]
         ELSE LET year  == IF now.month = 1 THEN now.year - 1 ELSE now.year
                  month == IF now.month = 1 THEN 12 ELSE now.month - 1
              IN  [from |-> datetime(Date(year, month, 1)),
                   to   |-> datetime(Date(year, month, monthrange(year, month)))]

\* the offset is added twice
plus_gmtoff_Twice(dt, off) == dt + 2 * off

\* lines 295-296: date + datetime.timedelta(seconds=time.localtime().tm_gmtoff)
plus_gmtoff(dt, off) == dt + off

\* date_from < reboot_time < date_to: the bounds are left out
RECURSIVE Arrows_Exclusive(_, _, _, _, _)
Arrows_Exclusive(times, i, from, to, off) ==
    IF i > Len(times) THEN <<>>
    ELSE LET reboot_time == times[i] + off
         IN  (IF from < reboot_time /\ reboot_time < to
              THEN <<(reboot_time - off)>> ELSE <<>>)
             \o Arrows_Exclusive(times, i + 1, from, to, off)

\* lines 307-311: one arrow per reboot time within [date_from, date_to]
RECURSIVE Arrows(_, _, _, _, _)
Arrows(times, i, from, to, off) ==
    IF i > Len(times) THEN <<>>
    ELSE LET reboot_time == plus_gmtoff(times[i], off)
         IN  (IF from <= reboot_time /\ reboot_time <= to
              THEN <<strftime_s(reboot_time, off)>> ELSE <<>>)
             \o Arrows(times, i + 1, from, to, off)

\* memory is divided by 1024 and the network rate by 128
ydata_Binary(data_type, data_index) ==
    CASE data_type = "MEM" -> [col |-> data_index, mul |-> 1, div |-> 1024]
      [] data_type = "NET" -> [col |-> data_index, mul |-> 1, div |-> 128]
      [] data_type = "IO"  -> [col |-> data_index, mul |-> 512, div |-> 1000000]
      [] OTHER             -> [col |-> data_index, mul |-> 1, div |-> 1]

\* lines 318-328: the value expression, column * mul / div
ydata(data_type, data_index) ==
    CASE data_type = "MEM" -> [col |-> data_index, mul |-> 1, div |-> 1000]
      [] data_type = "NET" -> [col |-> data_index, mul |-> 1, div |-> 125]
      [] data_type = "IO"  -> [col |-> data_index, mul |-> 512, div |-> 1000000]
      [] OTHER             -> [col |-> data_index, mul |-> 1, div |-> 1]

\* the nickname is not tested: the label is always prefixed
Legend_Always(data_file_nickname, data_title) == <<data_file_nickname, "_", data_title>>

\* lines 329-330: the legend label, as the pieces of the formatted string
Legend(data_file_nickname, data_title) ==
    IF data_file_nickname # "" THEN <<data_file_nickname, "_", data_title>>
    ELSE <<data_title>>

\* gnuplot evaluates "($N*mul/div)" on a column value in real arithmetic:
\* the value as the fraction num/den
GnuplotValue(expr, v) == [num |-> v * expr.mul, den |-> expr.div]

\* lines 394-425
plot_args(data_type) ==
    CASE data_type = "CPU" ->
            [title |-> "CPU",
             data_titles |-> <<"user", "nice", "system", "iowait", "steal", "idle">>,
             ylabel |-> "CPU usage (%)", yrange |-> <<"0", "100">>]
      [] data_type = "MEM" ->
            [title |-> "Memory",
             data_titles |-> <<"used", "buffers", "cached", "commit", "active", "dirty">>,
             ylabel |-> "Memory used (MB)", yrange |-> <<"0", "total_mem">>]
      [] data_type = "SWAP" ->
            [title |-> "Swap", data_titles |-> <<"swpused">>,
             ylabel |-> "Swap usage (%)", yrange |-> <<"0", "100">>]
      [] data_type = "NET" ->
            [title |-> "Network", data_titles |-> <<"rx", "tx">>,
             ylabel |-> "Bandwith (Mb/s)", yrange |-> <<"0", "max_speed<*">>]
      [] data_type = "IO" ->
            [title |-> "IO", data_titles |-> <<"read", "wrtn">>,
             ylabel |-> "Activity (MB/s)", yrange |-> <<"0", "*">>]

\* lines 316-336: one plot command per (table, series), tables outermost
PlotCmds(files, data_indexes, data_type, smooth, data_titles, off) ==
    LET n == Len(data_titles)
    IN  [k \in 1..(Len(files) * n) |->
            LET f == files[((k - 1) \div n) + 1]
                j == ((k - 1) % n) + 1
            IN  [file   |-> f.path,
                 xcol   |-> data_indexes[1],
                 xoff   |-> off,
                 ydata  |-> ydata(data_type, data_indexes[j + 1]),
                 smooth |-> smooth,
                 title  |-> Legend(f.nick, data_titles[j])]]

Plot(files, data_indexes, data_type, times, output_filepath, smooth, text, now, off) ==
    LET range     == date_range(report_type, now)
        date_from == plus_gmtoff(range.from, off)
        date_to   == plus_gmtoff(range.to, off)
        args      == plot_args(data_type)
    IN  [terminal  |-> IF text THEN "dumb" ELSE "png",
         output    |-> output_filepath,
         family    |-> data_type,
         title     |-> args.title,
         xtics     |-> IF report_type = "MONTHLY" THEN 60 * 60 * 24 * 2 ELSE 0,
         now       |-> now,
         xrange    |-> <<strftime_s(date_from, off), strftime_s(date_to, off)>>,
         format_x  |-> IF report_type = "DAILY" THEN "%R"
                       ELSE IF report_type = "WEEKLY" THEN "%a %d/%m" ELSE "%d",
         ylabel    |-> args.ylabel,
         yrange    |-> args.yrange,
         arrows    |-> Arrows(times, 1, date_from, date_to, off),
         plots     |-> PlotCmds(files, data_indexes, data_type, smooth,
                                args.data_titles, off)]

(***************************************************************************)
(* The rest of __main__ (lines 394-476).                                   *)
(***************************************************************************)
\* line 411: get_total_memory_mb() runs "free -m"
TotalMemory ==
    /\ pc = "free"
    /\ IF Interrupted THEN Raise("interrupt") /\ UNCHANGED trace
       ELSE IF check_call("free") THEN Raise("error") /\ UNCHANGED trace
       ELSE /\ pc' = "speed"
            /\ trace' = Append(trace, Step("free", ""))
            /\ UNCHANGED outcome
    /\ UNCHANGED <<env_vars, fs, fam, temp_dirs, sa_filepaths, decompressed, created,
                   reboot_times, indexes, data_filepaths, tables, charts, mail_count>>

\* line 420: get_max_network_speed() reads /sys/class/net/*/speed
MaxNetworkSpeed ==
    /\ pc = "speed"
    /\ IF Interrupted THEN Raise("interrupt") /\ UNCHANGED trace
       ELSE IF FaultHere("sysfs") THEN Raise("error") /\ UNCHANGED trace
       ELSE /\ pc' = "last"
            /\ trace' = Append(trace, Step("speed", ""))
            /\ UNCHANGED outcome
    /\ UNCHANGED <<env_vars, fs, fam, temp_dirs, sa_filepaths, decompressed, created,
                   reboot_times, indexes, data_filepaths, tables, charts, mail_count>>

\* line 430: reboot_times = get_reboot_times()
RebootTimes ==
    /\ pc = "last"
    /\ IF Interrupted
       THEN Raise("interrupt") /\ UNCHANGED <<trace, reboot_times, fam>>
       ELSE IF runs_last(wtmp) /\ check_call("last")
       THEN Raise("error") /\ UNCHANGED <<trace, reboot_times, fam>>
       ELSE /\ reboot_times' = get_reboot_times(wtmp, 1)
            /\ pc' = "extract"
            /\ fam' = 1
            /\ trace' = Append(trace, Step("last", ""))
            /\ UNCHANGED outcome
    /\ UNCHANGED <<env_vars, fs, temp_dirs, sa_filepaths, decompressed, created,
                   indexes, data_filepaths, tables, charts, mail_count>>

\* lines 434-438: indexes, data_filepaths = sysstat_data.generateData(...)
Extract ==
    /\ pc = "extract"
    /\ LET data_type     == SysstatDataType[fam]
           data_filepath == TempFile(data_type, "csv")
       IN  IF Interrupted
           THEN /\ Raise("interrupt")
                /\ UNCHANGED <<fs, created, indexes, data_filepaths, tables, trace>>
           ELSE IF sadf_fails(sa_filepaths)
           THEN /\ Raise("error")
                /\ fs' = fs \cup {data_filepath}
                /\ created' = created \cup {data_filepath}
                /\ UNCHANGED <<indexes, data_filepaths, tables, trace>>
           ELSE LET table == Concatenated(sadf_net, Len(sa_filepaths))
                    res   == generateData(data_type, data_filepath, table)
                    new   == {data_filepath} \cup
                             {res.written[k].path : k \in DOMAIN res.written}
                IN  /\ indexes' = res.indexes
                    /\ data_filepaths' =
                           TablesToPlot(res.net_output_filepaths, data_filepath)
                    /\ tables' = IF data_type = "NET" THEN res.written ELSE tables
                    /\ fs' = fs \cup new
                    /\ created' = created \cup new
                    /\ pc' = "png"
                    /\ trace' = Append(trace, Step("extract", data_type))
                    /\ UNCHANGED outcome
    /\ UNCHANGED <<env_vars, fam, temp_dirs, sa_filepaths, decompressed, reboot_times,
                   charts, mail_count>>

\* lines 441-449: plotter.plotToPng(...), then optipng when it is installed
PlotToPng ==
    /\ pc = "png"
    /\ LET data_type == SysstatDataType[fam]
           png       == TempFile(data_type, "png")
       IN  IF Interrupted
           THEN Raise("interrupt") /\ UNCHANGED <<fs, created, charts, trace>>
           ELSE /\ charts' = Append(charts,
                       Plot(data_filepaths, indexes, data_type, reboot_times, png,
                            report_type # "DAILY", FALSE, today, gmtoff))
                /\ fs' = fs \cup {png}
                /\ created' = created \cup {png}
                /\ IF check_call("gnuplot") \/ (HAS_OPTIPNG /\ check_call("optipng"))
                   THEN Raise("error") /\ UNCHANGED trace
                   ELSE /\ pc' = "text"
                        /\ trace' = Append(trace, Step("png", data_type))
                        /\ UNCHANGED outcome
    /\ UNCHANGED <<env_vars, fam, temp_dirs, sa_filepaths, decompressed, reboot_times,
                   indexes, data_filepaths, tables, mail_count>>

\* lines 452-460: plotter.plotToText(...)
PlotToText ==
    /\ pc = "text"
    /\ LET data_type == SysstatDataType[fam]
           txt       == TempFile(data_type, "txt")
       IN  IF Interrupted
           THEN Raise("interrupt") /\ UNCHANGED <<fs, created, charts, trace, fam>>
           ELSE /\ charts' = Append(charts,
                       Plot(data_filepaths, indexes, data_type, reboot_times, txt,
                            report_type # "DAILY", TRUE, today, gmtoff))
                /\ fs' = fs \cup {txt}
                /\ created' = created \cup {txt}
                /\ IF check_call("gnuplot")
                   THEN Raise("error") /\ UNCHANGED <<trace, fam>>
                   ELSE /\ pc' = IF fam < Len(SysstatDataType) THEN "extract" ELSE "mail"
                        /\ fam' = IF fam < Len(SysstatDataType) THEN fam + 1 ELSE 0
                        /\ trace' = Append(trace, Step("text", data_type))
                        /\ UNCHANGED outcome
    /\ UNCHANGED <<env_vars, temp_dirs, sa_filepaths, decompressed, reboot_times,
                   indexes, data_filepaths, tables, mail_count>>

\* lines 463-476: format_email(...), then sendmail
SendMail ==
    /\ pc = "mail"
    /\ IF Interrupted
       THEN Raise("interrupt") /\ UNCHANGED <<mail_count, trace>>
       ELSE /\ mail_count' = mail_count + 1
            /\ IF check_call("sendmail")
               THEN Raise("error") /\ UNCHANGED trace
               ELSE /\ pc' = "exit"
                    /\ outcome' = "ok"
                    /\ trace' = Append(trace, Step("mail", ""))
    /\ UNCHANGED <<env_vars, fs, fam, temp_dirs, sa_filepaths, decompressed, created,
                   reboot_times, indexes, data_filepaths, tables, charts>>

\* the directory is removed at the end of the block only, not on an exception
rmtree_OnSuccess(files) == IF outcome = "ok" THEN {p \in files : p.dir # TempDir} ELSE files

\* TemporaryDirectory.__exit__: shutil.rmtree(temp_dir)
rmtree(files) == {p \in files : p.dir # TempDir}

\* line 391: the with block is left, normally or by an exception
ExitTempDir ==
    /\ pc = "exit"
    /\ fs' = rmtree(fs)
    /\ pc' = "done"
    /\ UNCHANGED <<env_vars, fam, temp_dirs, sa_filepaths, decompressed, created,
                   reboot_times, indexes, data_filepaths, tables, charts, trace,
                   mail_count, outcome>>

Next ==
    \/ AcquireTempDir
    \/ SysstatDataInit
    \/ TotalMemory
    \/ MaxNetworkSpeed
    \/ RebootTimes
    \/ Extract
    \/ PlotToPng
    \/ PlotToText
    \/ SendMail
    \/ ExitTempDir

(***************************************************************************)
(* Initial states.                                                         *)
(***************************************************************************)
\* The years of the bounds, and a century year that is not a leap year.
Years == (FirstYear..LastYear) \cup {2100}

Dates == {d \in [year : Years, month : 1..12, day : 1..31] :
             d.day <= monthrange(d.year, d.month)}

\* The segment files on disk when the run starts on day t: today's file is
\* live; the day j days before t has a live file when j <= live, an archive
\* otherwise, and nothing at all when j = hole.
Segments(t, live, hole) ==
    UNION {LET d == date_minus_days(t, j)
               p == MonthSegment(d.year, d.month, d.day)
           IN  IF j > 0 /\ j = hole THEN {}
               ELSE IF j <= live
                    THEN {p} \cup (IF j <= 27 THEN {DailySegment(d)} ELSE {})
                    ELSE {Bz2Of(p)}
           : j \in 0..Lookback}

LiveDays == {0, 2, Lookback}

Holes == {0, 1, 5}

InitRun ==
    /\ pc = "start"
    /\ fam = 0
    /\ temp_dirs = 0
    /\ sa_filepaths = <<>>
    /\ decompressed = <<>>
    /\ created = {}
    /\ reboot_times = <<>>
    /\ indexes = <<>>
    /\ data_filepaths = <<>>
    /\ tables = <<>>
    /\ charts = <<>>
    /\ trace = <<>>
    /\ mail_count = 0
    /\ outcome = "running"

NoWtmp == <<[isfile |-> FALSE, boots |-> <<>>], [isfile |-> TRUE, boots |-> <<>>]>>

\* Every date of the year range, every report type, segment files live,
\* archived or missing.
WindowFiles == {<<0, 0>>, <<2, 0>>, <<Lookback, 0>>, <<2, 5>>}

InitWindow ==
    /\ today \in Dates
    /\ report_type \in Range(ReportType)
    /\ \E f \in WindowFiles : fs = Segments(today, f[1], f[2])
    /\ fault = NoFault
    /\ gmtoff = 0
    /\ HAS_OPTIPNG = FALSE
    /\ wtmp = NoWtmp
    /\ sadf_net = <<"IFACE">>
    /\ InitRun

NextWindow == AcquireTempDir \/ SysstatDataInit

SpecWindow == InitWindow /\ [][NextWindow]_vars

\* The faults a run may meet: one tool failing at one step, or an interrupt.
ToolsAt(step) ==
    CASE step = "locate"  -> {"bz2"}
      [] step = "free"    -> {"free"}
      [] step = "speed"   -> {"sysfs"}
      [] step = "last"    -> {"last"}
      [] step = "extract" -> {"sadf"}
      [] step = "png"     -> {"gnuplot", "optipng"}
      [] step = "text"    -> {"gnuplot"}
      [] step = "mail"    -> {"sendmail"}

Faults ==
    {NoFault}
    \cup {[pc |-> s, fam |-> 0, tool |-> t] :
             s \in {"locate", "free", "speed", "last", "mail"},
             t \in {"bz2", "free", "sysfs", "last", "sendmail", "SIGINT"}}
    \cup {[pc |-> s, fam |-> k, tool |-> t] :
             s \in {"extract", "png", "text"}, k \in DOMAIN SysstatDataType,
             t \in {"sadf", "gnuplot", "optipng", "SIGINT"}}

RealFaults == {f \in Faults : f = NoFault \/ f.tool \in ToolsAt(f.pc) \cup {"SIGINT"}}

BoundedSeq(S, n) == UNION {[1..k -> S] : k \in 0..n}

OneBoot(t) == <<[isfile |-> FALSE, boots |-> <<>>],
                [isfile |-> TRUE, boots |-> <<datetime(t) - 3600>>]>>

TwoInterfaces == <<"IFACE", "eth0", "lo", "eth0", "lo">>

\* Whole runs: every fault at every step, with and without optipng, segment
\* files live, archived or missing.
RunDates == {Date(LastYear, 1, 3), Date(LastYear - 1, 3, 31)}

Init ==
    /\ today \in RunDates
    /\ report_type \in Range(ReportType)
    /\ \E live \in LiveDays, hole \in Holes : fs = Segments(today, live, hole)
    /\ fault \in RealFaults
    /\ gmtoff = 3600
    /\ HAS_OPTIPNG \in BOOLEAN
    /\ wtmp = OneBoot(today)
    /\ sadf_net = TwoInterfaces
    /\ InitRun

Spec == Init /\ [][Next]_vars

\* Runs without faults over the outputs "sadf -n DEV" may print for a segment.
Interfaces == {"eth0", "eth1"}

NetTables == {<<"IFACE">> \o s : s \in BoundedSeq(Interfaces \cup {"IFACE"}, MaxRows)}

InitNet ==
    /\ today = Date(LastYear, 3, 2)
    /\ report_type \in {"DAILY", "WEEKLY"}
    /\ fs = Segments(today, Lookback, 0)
    /\ fault = NoFault
    /\ gmtoff = 3600
    /\ HAS_OPTIPNG = TRUE
    /\ wtmp = OneBoot(today)
    /\ sadf_net \in NetTables
    /\ InitRun

SpecNet == InitNet /\ [][Next]_vars

\* Runs without faults over dates, timezones and reboot logs: wtmp.1 exists
\* when there are at least two boots, and then holds the oldest.
PlotDates == {Date(LastYear, 1, 1), Date(LastYear - 1, 3, 31), Date(LastYear, 7, 15)}

Offsets == {-18000, 0, 3600}

\* Boot times around both ends of the chart's range and inside it.
CandidateBoots(rtype, t) ==
    LET r == date_range(rtype, t)
    IN  {r.from - 60, r.from, r.from + 43200, r.to, r.to + 60}

InitPlot ==
    /\ today \in PlotDates
    /\ report_type \in Range(ReportType)
    /\ fs = Segments(today, Lookback, 0)
    /\ fault = NoFault
    /\ gmtoff \in Offsets
    /\ HAS_OPTIPNG = TRUE
    /\ \E s \in BoundedSeq(CandidateBoots(report_type, today), MaxReboots) :
          wtmp = IF Len(s) >= 2
                 THEN <<[isfile |-> TRUE, boots |-> <<s[1]>>],
                        [isfile |-> TRUE, boots |-> Tail(s)]>>
                 ELSE <<[isfile |-> FALSE, boots |-> <<>>],
                        [isfile |-> TRUE, boots |-> s]>>
    /\ sadf_net = TwoInterfaces
    /\ InitRun

SpecPlot == InitPlot /\ [][Next]_vars

(***************************************************************************)
(* The calendar as the properties state it: the Gregorian rule, day by     *)
(* day, without ordinals.                                                  *)
(***************************************************************************)
GregorianLeap(y) == y % 400 = 0 \/ (y % 4 = 0 /\ y % 100 # 0)

DaysIn(y, m) ==
    IF m \in {4, 6, 9, 11} THEN 30
    ELSE IF m = 2 THEN (IF GregorianLeap(y) THEN 29 ELSE 28)
    ELSE 31

ValidDate(d) == d.month \in 1..12 /\ d.day \in 1..DaysIn(d.year, d.month)

NextDay(d) ==
    IF d.day < DaysIn(d.year, d.month) THEN Date(d.year, d.month, d.day + 1)
    ELSE IF d.month < 12 THEN Date(d.year, d.month + 1, 1)
    ELSE Date(d.year + 1, 1, 1)

PrevDay(d) ==
    IF d.day > 1 THEN Date(d.year, d.month, d.day - 1)
    ELSE IF d.month > 1 THEN Date(d.year, d.month - 1, DaysIn(d.year, d.month - 1))
    ELSE Date(d.year - 1, 12, 31)

RECURSIVE DaysBefore(_, _)
DaysBefore(d, n) == IF n = 0 THEN d ELSE DaysBefore(PrevDay(d), n - 1)

\* The segments have been located: SysstatData was constructed.
Located == trace # <<>>

\* SysstatData's constructor has run, to its end or to an exception.
Constructed == pc \notin {"start", "locate"} /\ ~(fault.pc = "locate" /\ fault.tool = "SIGINT")

\* The file under /var/log/sysstat that segment i was read from: the path
\* itself, or the archive it was decompressed from.
SegmentSource(i) ==
    IF sa_filepaths[i].dir = TempDir
    THEN (CHOOSE c \in Range(decompressed) : c[2] = sa_filepaths[i])[1]
    ELSE sa_filepaths[i]

\* The date a file is addressed by: its YYYYMM directory and its day.
DateOf(p) == Date(p.dir \div 100, p.dir % 100, p.day)

SegmentDate(i) == DateOf(SegmentSource(i))

\* The constructor stopped at a decompression that raised.
LocateFailed == Constructed /\ ~Located /\ decompressed # <<>>

FailedArchive == decompressed[Len(decompressed)][1]

FirstOfPreviousMonth(t) ==
    LET e == PrevDay(Date(t.year, t.month, 1)) IN Date(e.year, e.month, 1)

(***************************************************************************)
(* C1: with report type MONTHLY, the segments are the days 1..N of the     *)
(* month before today's, in ascending order, N being that month's number   *)
(* of days, all under that month's year-month directory; in January that   *)
(* month is December of the year before.  A constructor that stops at a    *)
(* missing segment has located the days before it, and stopped at the      *)
(* archive of the next day of that month.                                  *)
(***************************************************************************)
C1_MonthlySegments ==
    (report_type = "MONTHLY" /\ Constructed) =>
        LET n == Len(sa_filepaths)
            f == FirstOfPreviousMonth(today)
        IN  /\ \A i \in 1..n :
                  /\ SegmentDate(i) = Date(f.year, f.month, i)
                  /\ sa_filepaths[i].day = i
                  /\ SegmentSource(i).stem = "sa"
            /\ n <= DaysIn(f.year, f.month)
            /\ Located => /\ n = DaysIn(f.year, f.month)
                          /\ NextDay(SegmentDate(n)) = Date(today.year, today.month, 1)
            /\ LocateFailed => /\ n < DaysIn(f.year, f.month)
                               /\ FailedArchive = Bz2Of(MonthSegment(f.year, f.month, n + 1))
            /\ today.month = 1 => f = Date(today.year - 1, 12, 1)

C1_Witness ==
    /\ report_type = "MONTHLY"
    /\ pc = "free"
    /\ today.month = 1
    /\ Len(sa_filepaths) = 31
    /\ \E i \in DOMAIN sa_filepaths : sa_filepaths[i].dir = TempDir

(***************************************************************************)
(* C2: with report type WEEKLY, there are exactly 7 segments, their dates  *)
(* are consecutive and ascending and the last is the day before today;     *)
(* each is addressed by its own year-month directory and day.  A           *)
(* constructor that stops at a missing segment has located the days before *)
(* it, and stopped at the archive of the next day.                         *)
(***************************************************************************)
C2_WeeklySegments ==
    (report_type = "WEEKLY" /\ Constructed) =>
        LET n == Len(sa_filepaths)
        IN  /\ n <= 7
            /\ \A i \in 1..n :
                  /\ ValidDate(SegmentDate(i))
                  /\ SegmentDate(i) = DaysBefore(today, 8 - i)
                  /\ sa_filepaths[i].day = SegmentDate(i).day
                  /\ SegmentSource(i).stem = "sa"
            /\ \A i \in 1..(n - 1) : NextDay(SegmentDate(i)) = SegmentDate(i + 1)
            /\ Located => n = 7 /\ NextDay(SegmentDate(7)) = today
            /\ LocateFailed =>
                  /\ n < 7
                  /\ LET d == DaysBefore(today, 7 - n)
                     IN  FailedArchive = Bz2Of(MonthSegment(d.year, d.month, d.day))

C2_Witness ==
    /\ report_type = "WEEKLY"
    /\ pc = "free"
    /\ Len(sa_filepaths) = 7
    /\ SegmentDate(1).year = today.year - 1
    /\ SegmentDate(7).year = today.year
    /\ \E i \in DOMAIN sa_filepaths : sa_filepaths[i].dir = TempDir

(***************************************************************************)
(* The report window as the properties state it, oldest day first, and the *)
(* live path of a day of it.                                               *)
(***************************************************************************)
Window(rtype, t) ==
    IF rtype = "DAILY" THEN <<PrevDay(t)>>
    ELSE IF rtype = "WEEKLY" THEN [i \in 1..7 |-> DaysBefore(t, 8 - i)]
    ELSE LET f == FirstOfPreviousMonth(t)
         IN  [i \in 1..DaysIn(f.year, f.month) |-> Date(f.year, f.month, i)]

LivePath(rtype, d) ==
    IF rtype = "DAILY" THEN Path(SysstatRoot, "sa", d.day, "", "")
    ELSE Path(d.year * 100 + d.month, "sa", d.day, "", "")

ScratchPath(p) == Path(TempDir, p.stem, p.day, p.itf, p.ext)

\* Nothing of any metric has been extracted or plotted, and no mail sent.
NothingExtracted ==
    /\ \A k \in DOMAIN trace : trace[k].step \notin {"extract", "png", "text", "mail"}
    /\ charts = <<>>
    /\ mail_count = 0
    /\ \A p \in created : p.stem = "sa"

\* What the claim says of the locator, for the window of report type rtype.
LocatorContract(rtype) ==
    LET w    == Window(rtype, today)
        live == [i \in DOMAIN w |-> LivePath(rtype, w[i])]
    IN  /\ Located =>
              /\ Len(sa_filepaths) = Len(w)
              /\ \A i \in DOMAIN w :
                    IF live[i] \in fs
                    THEN /\ sa_filepaths[i] = live[i]
                         /\ \A c \in Range(decompressed) : c[1] # Bz2Of(live[i])
                    ELSE /\ Bz2Of(live[i]) \in fs
                         /\ sa_filepaths[i] = ScratchPath(live[i])
                         /\ <<Bz2Of(live[i]), ScratchPath(live[i])>> \in Range(decompressed)
                         /\ ScratchPath(live[i]) \in created
        /\ (\E i \in DOMAIN w : live[i] \notin fs /\ Bz2Of(live[i]) \notin fs) =>
              /\ ~Located
              /\ outcome = "error"
              /\ pc \in {"exit", "done"}
              /\ NothingExtracted

\* C3 as claimed: the locator's contract holds for every report kind.
C3_Original ==
    Constructed => LocatorContract(report_type)

(***************************************************************************)
(* C3 (amended): for WEEKLY and MONTHLY, a live segment file is used       *)
(* unchanged and nothing is decompressed for it; a missing one is          *)
(* decompressed from <live path>.bz2 into the temporary directory under    *)
(* the live file's base name and that path is used; when neither exists    *)
(* the constructor raises, before anything is extracted.  For DAILY the    *)
(* constructor checks nothing and decompresses nothing: the path is always *)
(* /var/log/sysstat/sa<DD> of yesterday, and a missing file fails the run  *)
(* at the first extraction, before any chart or mail.                      *)
(***************************************************************************)
C3_Locator ==
    Constructed =>
        IF report_type # "DAILY" THEN LocatorContract(report_type)
        ELSE LET yesterday == PrevDay(today)
             IN  /\ Located
                 /\ sa_filepaths = <<Path(SysstatRoot, "sa", yesterday.day, "", "")>>
                 /\ decompressed = <<>>
                 /\ \A p \in created : p.stem # "sa"
                 /\ sa_filepaths[1] \notin fs =>
                       /\ \A k \in DOMAIN trace : trace[k].step \notin {"extract", "mail"}
                       /\ charts = <<>>
                       /\ mail_count = 0
                       /\ pc = "done" => outcome \in {"error", "interrupt"}

C3_Witness ==
    /\ report_type = "WEEKLY"
    /\ pc = "free"
    /\ \E i, j \in DOMAIN sa_filepaths :
          /\ sa_filepaths[i].dir = TempDir
          /\ sa_filepaths[i] \in fs
          /\ sa_filepaths[j].dir # TempDir

(***************************************************************************)
(* C5: sendmail is invoked at most once, and only after the segments were  *)
(* located and, for CPU, MEM, SWAP, NET and IO in that order, the data was *)
(* extracted and the PNG and the text were plotted; a tool that fails at a *)
(* step ends the run there: that step and the later ones are not           *)
(* completed and, unless the tool is sendmail itself, no mail is sent.     *)
(***************************************************************************)
Families == <<"CPU", "MEM", "SWAP", "NET", "IO">>

PipelineOf(k) == <<Step("extract", Families[k]), Step("png", Families[k]),
                   Step("text", Families[k])>>

Pipeline ==
    <<Step("locate", ""), Step("free", ""), Step("speed", ""), Step("last", "")>>
    \o PipelineOf(1) \o PipelineOf(2) \o PipelineOf(3) \o PipelineOf(4) \o PipelineOf(5)

IsPrefix(s, t) == Len(s) <= Len(t) /\ \A i \in DOMAIN s : s[i] = t[i]

\* The tool named by fault is run at the step named by fault.
FaultyToolRuns ==
    \/ fault.tool \in {"free", "sysfs", "last", "sadf", "gnuplot", "sendmail"}
    \/ fault.tool = "optipng" /\ HAS_OPTIPNG
    \/ fault.tool = "bz2" /\ decompressed # <<>>

FaultyStep == Step(fault.pc, IF fault.fam = 0 THEN "" ELSE Families[fault.fam])

C5_MailOnlyAfterAll ==
    /\ mail_count <= 1
    /\ IsPrefix(trace, Pipeline \o <<Step("mail", "")>>)
    /\ mail_count = 1 => /\ IsPrefix(Pipeline, trace)
                         /\ Len(charts) = 2 * Len(Families)
    /\ outcome = "error" => pc \in {"exit", "done"}
    /\ (outcome = "error" /\ ~IsPrefix(Pipeline, trace)) => mail_count = 0
    /\ FaultyToolRuns =>
          /\ \A k \in DOMAIN trace : trace[k] # FaultyStep
          /\ fault.tool # "sendmail" => mail_count = 0
          /\ pc = "done" => outcome = "error"

C5_Witness ==
    /\ pc = "done"
    /\ outcome = "ok"
    /\ mail_count = 1
    /\ HAS_OPTIPNG
    /\ \E i \in DOMAIN sa_filepaths : sa_filepaths[i].dir = TempDir

(***************************************************************************)
(* C6: the temporary directory is acquired once, before any segment is     *)
(* located; every file the run writes is inside it; and however the run    *)
(* ends (mail sent, a failure at any step, an interrupt), it ends with the *)
(* temporary directory and everything in it removed.                       *)
(***************************************************************************)
C6_ScratchScoped ==
    /\ temp_dirs <= 1
    /\ temp_dirs = 0 => /\ pc = "start"
                        /\ sa_filepaths = <<>>
                        /\ decompressed = <<>>
                        /\ created = {}
    /\ pc # "start" => temp_dirs = 1
    /\ \A p \in created : p.dir = TempDir
    /\ \A c \in Range(decompressed) : c[2].dir = TempDir
    /\ \A k \in DOMAIN charts : charts[k].output.dir = TempDir
    /\ outcome # "running" => pc \in {"exit", "done"}
    /\ pc = "done" => /\ outcome \in {"ok", "error", "interrupt"}
                      /\ \A p \in fs : p.dir # TempDir
                      /\ \A p \in created : p \notin fs

C6_Witness ==
    /\ pc = "done"
    /\ outcome = "interrupt"
    /\ \E p \in created : p.ext = "png"
    /\ \E p \in created : p.stem = "sa"
    /\ \E p \in created : p.itf # ""

(***************************************************************************)
(* The NET table generateData read, and the partition the claim describes. *)
(***************************************************************************)
NetExtracted == \E k \in DOMAIN trace : trace[k] = Step("extract", "NET")

NetTable == Concatenated(sadf_net, Len(sa_filepaths))

\* The first line, after the header line, whose interface was seen on an
\* earlier line after the header line; Len(t) + 1 when there is none.
FirstRepeat(t) ==
    LET R == {i \in 3..Len(t) : \E j \in 2..(i - 1) : t[j] = t[i]}
    IN  IF R = {} THEN Len(t) + 1 ELSE CHOOSE i \in R : \A j \in R : i <= j

Ascending(s) == \A i, j \in DOMAIN s : i < j => s[i] < s[j]

\* One sub-table, in the temporary directory, per interface met before the
\* first repeat, in first-seen order.
SubTablesCreated(t) ==
    /\ Len(tables) = FirstRepeat(t) - 2
    /\ \A k \in DOMAIN tables :
          /\ tables[k].path = Path(TempDir, "NET", 0, t[k + 1], "csv")
          /\ tables[k].path \in created
          /\ Ascending(tables[k].lines)

IsExample == report_type = "DAILY" /\ sadf_net = <<"IFACE", "eth0", "eth1", "eth0", "eth1">>

\* C4 as claimed: the sub-table of an interface holds only its rows before
\* the first repeat (header lines, whose field is "IFACE", are left aside).
C4_Original ==
    NetExtracted =>
        LET t == NetTable
        IN  /\ SubTablesCreated(t)
            /\ \A k \in DOMAIN tables :
                  tables[k].path.itf # "IFACE" =>
                      Range(tables[k].lines) =
                          {j \in 2..(FirstRepeat(t) - 1) : t[j] = tables[k].path.itf}
            /\ IsExample => /\ Len(tables) = 2
                            /\ \A k \in DOMAIN tables : Len(tables[k].lines) = 1

(***************************************************************************)
(* C4 (amended): generateData creates a sub-table for exactly the          *)
(* interface names met before the first row that repeats a name already    *)
(* met, and each sub-table holds every line of the whole table whose       *)
(* interface field is its name, in order, the lines at and after the       *)
(* repeat included.  For the rows [eth0, eth1, eth0, eth1] this gives 2    *)
(* sub-tables of 2 rows each.                                              *)
(***************************************************************************)
C4_Partition ==
    NetExtracted =>
        LET t == NetTable
        IN  /\ SubTablesCreated(t)
            /\ \A k \in DOMAIN tables :
                  Range(tables[k].lines) =
                      {j \in 1..Len(t) : t[j] = tables[k].path.itf}
            /\ IsExample => /\ Len(tables) = 2
                            /\ \A k \in DOMAIN tables : Len(tables[k].lines) = 2

C4_Witness ==
    /\ IsExample
    /\ NetExtracted
    /\ Len(tables) = 2
    /\ tables[1].lines = <<2, 4>>
    /\ tables[2].lines = <<3, 5>>

(***************************************************************************)
(* The chart scripts.                                                      *)
(***************************************************************************)
Charts == Range(charts)

\* The tables a chart plots.
ChartTables(c) == {c.plots[k].file : k \in DOMAIN c.plots}

\* The series name of the k-th plot command of chart c.
SeriesName(c, k) ==
    LET titles == plot_args(c.family).data_titles
    IN  titles[((k - 1) % Len(titles)) + 1]

\* C10 as claimed: the label is prefixed when the family has more than one table.
C10_Original ==
    \A c \in Charts : \A k \in DOMAIN c.plots :
        c.plots[k].title =
            IF Cardinality(ChartTables(c)) > 1
            THEN <<c.plots[k].file.itf, "_", SeriesName(c, k)>>
            ELSE <<SeriesName(c, k)>>

(***************************************************************************)
(* C10 (amended): a legend label is "<interface>_<series-name>" when the   *)
(* table plotted is a per-interface sub-table, that is for NETWORK with at *)
(* least one interface discovered, exactly one included; it is just        *)
(* "<series-name>" for the other families and for NETWORK with no          *)
(* interface discovered.                                                   *)
(***************************************************************************)
C10_Legend ==
    \A c \in Charts :
        LET split == c.family = "NET" /\ tables # <<>>
        IN  /\ Len(c.plots) =
                  (IF split THEN Len(tables) ELSE 1) * Len(plot_args(c.family).data_titles)
            /\ \A k \in DOMAIN c.plots :
                  LET n == Len(plot_args(c.family).data_titles)
                      f == c.plots[k].file
                  IN  IF split
                      THEN /\ f = tables[((k - 1) \div n) + 1].path
                           /\ f.itf # ""
                           /\ c.plots[k].title = <<f.itf, "_", SeriesName(c, k)>>
                      ELSE /\ f = Path(TempDir, c.family, 0, "", "csv")
                           /\ c.plots[k].title = <<SeriesName(c, k)>>

C10_Witness ==
    \E c \in Charts :
        /\ c.family = "NET"
        /\ Cardinality(ChartTables(c)) = 1
        /\ Len(c.plots) = 2
        /\ c.plots[1].title = <<"eth0", "_", "rx">>
        /\ c.plots[2].title = <<"eth0", "_", "tx">>

(***************************************************************************)
(* C7: the x-range of every chart is, before the UTC offset is added,      *)
(* DAILY [yesterday 00:00, today 00:00], WEEKLY [today - 7 days 00:00,     *)
(* today 00:00], MONTHLY [first day of the previous month 00:00, last day  *)
(* of the previous month 00:00], December of the year before in January;   *)
(* both bounds carry the UTC offset once, and every plot command adds the  *)
(* same offset once to the timestamp column.                               *)
(***************************************************************************)
\* The epoch second at which local time is 00:00 on day d.
MidnightEpoch(d) == datetime(d) - gmtoff

WindowStart(rtype, d) ==
    IF rtype = "DAILY" THEN PrevDay(d)
    ELSE IF rtype = "WEEKLY" THEN DaysBefore(d, 7)
    ELSE FirstOfPreviousMonth(d)

WindowEnd(rtype, d) ==
    IF rtype = "MONTHLY" THEN PrevDay(Date(d.year, d.month, 1)) ELSE d

C7_XRange ==
    \A c \in Charts :
        /\ c.now = today
        /\ c.xrange[1] = MidnightEpoch(WindowStart(report_type, c.now)) + gmtoff
        /\ c.xrange[2] = MidnightEpoch(WindowEnd(report_type, c.now)) + gmtoff
        /\ (report_type = "MONTHLY" /\ c.now.month = 1) =>
              /\ WindowStart(report_type, c.now) = Date(c.now.year - 1, 12, 1)
              /\ WindowEnd(report_type, c.now) = Date(c.now.year - 1, 12, 31)
        /\ \A k \in DOMAIN c.plots :
              /\ c.plots[k].xcol = 3
              /\ c.plots[k].xoff = gmtoff

C7_Witness ==
    /\ pc = "done"
    /\ Len(charts) = 10
    /\ report_type = "MONTHLY"
    /\ today.month = 1
    /\ gmtoff < 0
    /\ charts[10].terminal = "dumb"
    /\ charts[10].xrange[2] - charts[10].xrange[1] = 30 * 86400

(***************************************************************************)
(* C8: the value plotted for a raw column value v is the family's unit     *)
(* conversion of v: MEM v/1000, NET v/125, IO v*512/1000000, CPU and SWAP  *)
(* v; MEM 2,000,000 gives 2,000, NET 1,250 gives 10 and IO 2,000 gives     *)
(* 1.024, as rationals, without truncation.                                *)
(***************************************************************************)
RECURSIVE GCD(_, _)
GCD(a, b) == IF b = 0 THEN a ELSE GCD(b, a % b)

Rational(num, den) ==
    LET g == GCD(num, den) IN [num |-> num \div g, den |-> den \div g]

RawValues == {0, 1, 999, 1250, 2000, 2000000}

Conversion(family, v) ==
    CASE family = "MEM" -> Rational(v, 1000)
      [] family = "NET" -> Rational(v, 125)
      [] family = "IO"  -> Rational(v * 512, 1000000)
      [] OTHER          -> Rational(v, 1)

Plotted(c, k, v) ==
    LET q == GnuplotValue(c.plots[k].ydata, v) IN Rational(q.num, q.den)

C8_UnitConversion ==
    \A c \in Charts : \A k \in DOMAIN c.plots :
        /\ c.family \in {"CPU", "MEM", "SWAP", "NET", "IO"}
        /\ \A v \in RawValues : Plotted(c, k, v) = Conversion(c.family, v)
        /\ c.family = "MEM" => Plotted(c, k, 2000000) = Rational(2000, 1)
        /\ c.family = "NET" => Plotted(c, k, 1250) = Rational(10, 1)
        /\ c.family = "IO" => Plotted(c, k, 2000) = Rational(1024, 1000)
        /\ c.family \in {"CPU", "SWAP"} => Plotted(c, k, 999) = Rational(999, 1)

C8_Witness ==
    /\ pc = "done"
    /\ \E c \in Charts : c.family = "MEM" /\ Plotted(c, 1, 2000000) = Rational(2000, 1)
    /\ \E c \in Charts : c.family = "NET" /\ Plotted(c, 1, 1250) = Rational(10, 1)
    /\ \E c \in Charts : c.family = "IO" /\ Plotted(c, 1, 2000) = Rational(128, 125)
    /\ \E c \in Charts : c.family = "CPU" /\ Len(c.plots) = 6

(***************************************************************************)
(* C9: every chart has one arrow per reboot time whose timestamp plus the  *)
(* UTC offset lies within the chart's x-range, bounds included, placed at  *)
(* that value, in input order with duplicates kept, and no other arrow.    *)
(***************************************************************************)
\* The reboot times as epoch seconds plus the UTC offset.
AdjustedReboots == [i \in DOMAIN reboot_times |-> (reboot_times[i] - gmtoff) + gmtoff]

RECURSIVE Within(_, _, _)
Within(s, lo, hi) ==
    IF s = <<>> THEN <<>>
    ELSE (IF lo <= Head(s) /\ Head(s) <= hi THEN <<Head(s)>> ELSE <<>>)
         \o Within(Tail(s), lo, hi)

C9_RebootLines ==
    \A c \in Charts :
        /\ reboot_times = get_reboot_times(wtmp, 1)
        /\ c.arrows = Within(AdjustedReboots, c.xrange[1], c.xrange[2])

C9_Witness ==
    /\ Len(reboot_times) = 2
    /\ \E c \in Charts :
          /\ Len(c.arrows) = 2
          /\ c.arrows[1] = c.arrows[2]
          /\ c.arrows[1] = c.xrange[2]

(***************************************************************************)
(* C11: for every report kind and every current date, every chart's        *)
(* x-range covers the whole report window: each sample taken on the date   *)
(* of a located segment, from 00:00 to the last second of that day, is     *)
(* plotted at an x within [x_from, x_to] of the charts of the same run.    *)
(***************************************************************************)
\* The date whose samples segment i holds.  A file of a YYYYMM directory is
\* addressed by its date; /var/log/sysstat/sa<DD> is the file of the latest
\* day before today whose day of the month is DD.
SampleDate(i) ==
    LET p == SegmentSource(i)
    IN  IF p.dir = SysstatRoot
        THEN DaysBefore(today,
                 CHOOSE n \in 1..31 :
                     /\ DaysBefore(today, n).day = p.day
                     /\ \A m \in 1..(n - 1) : DaysBefore(today, m).day # p.day)
        ELSE DateOf(p)

\* Where plot command k of chart c draws a sample of epoch second t.
PlottedAt(c, k, t) == t + c.plots[k].xoff

FirstSecond(d) == MidnightEpoch(d)

LastSecond(d) == MidnightEpoch(NextDay(d)) - 1

C11_WindowCovered ==
    \A c \in Charts : \A i \in DOMAIN sa_filepaths : \A k \in DOMAIN c.plots :
        /\ c.xrange[1] <= PlottedAt(c, k, FirstSecond(SampleDate(i)))
        /\ PlottedAt(c, k, LastSecond(SampleDate(i))) <= c.xrange[2]

====
